---- MODULE Spec2Model ----
(***************************************************************************)
(* A model of demo_app.py: the FastHTML demo that renders a form from a    *)
(* JSON Schema file and echoes the submitted values back, typed.           *)
(*                                                                         *)
(* Values.  A Python/JSON value is a record tagged by its field t:         *)
(*   [t |-> "null"], [t |-> "bool", b], [t |-> "int", i],                  *)
(*   [t |-> "float", kind, neg, m, e], [t |-> "list"],                     *)
(*   [t |-> "object", items] (a dict: the sequence of its <<key, value>>   *)
(*   pairs in insertion order, keys unique),                               *)
(*   [t |-> "str", s] (a string of the schema file, which the program      *)
(*   only compares and copies, kept atomic) and [t |-> "str", chars] (a    *)
(*   string of the form data, which the program parses: the sequence of    *)
(*   its characters).                                                      *)
(* A float is kept as the exact decimal neg * m * 10^e with m stripped of  *)
(* trailing zeros, which identifies a double for the short literals used   *)
(* here (binary rounding and overflow to inf are outside the model).       *)
(* The dicts the handlers build (config, values) are functions from keys   *)
(* to values.                                                              *)
(***************************************************************************)
EXTENDS Integers, Sequences, FiniteSets, TLC

VARIABLES
    phase,        \* "boot" | "serving" | "exit": the __main__ block's position
    SCHEMA_PATH,  \* the module global: "None" or the path given by --schema
    schema_data,  \* the module global __main__ loads the schema into, once
    file,         \* the content of the file at the --schema path
    pc,           \* per request: "idle" | "form" | "load" | "defaults" |
                  \*   "booleans" | "numerics" | "done"
    kind,         \* per request: "none" | "index" | "submit"
    form_data,    \* per request: the posted form (request.form())
    config,       \* per request: submit's local dict
    schema,       \* per request: the handler's local schema
    response      \* per request: what the handler returned or raised

vars == <<phase, SCHEMA_PATH, schema_data, file, pc, kind, form_data, config,
          schema, response>>

(***************************************************************************)
(* Values                                                                  *)
(***************************************************************************)
JNull == [t |-> "null"]
JBool(b) == [t |-> "bool", b |-> b]
JInt(i) == [t |-> "int", i |-> i]
JStr(s) == [t |-> "str", s |-> s]
JText(cs) == [t |-> "str", chars |-> cs]
JList == [t |-> "list"]
JObject(items) == [t |-> "object", items |-> items]
JFinite(neg, m, e) == [t |-> "float", kind |-> "finite", neg |-> neg, m |-> m, e |-> e]
JSpecial(k, neg) == [t |-> "float", kind |-> k, neg |-> neg, m |-> 0, e |-> 0]

EmptyDict == [k \in {} |-> JNull]

\* d[k] = v on a Python dict
Put(d, k, v) == [x \in DOMAIN d \cup {k} |-> IF x = k THEN v ELSE d[x]]

\* the keys of a JSON object, and the value stored under a key it has
Keys(obj) == {obj.items[i][1] : i \in 1..Len(obj.items)}
Lookup(obj, k) == LET i == CHOOSE j \in 1..Len(obj.items) : obj.items[j][1] = k
                  IN obj.items[i][2]

IsMapping(v) == v.t = "object"

(***************************************************************************)
(* str -> int and str -> float, as the built-ins int() and float() parse a *)
(* str in base 10.                                                         *)
(***************************************************************************)
Digits == {"0", "1", "2", "3", "4", "5", "6", "7", "8", "9"}
Whitespace == {" ", "\t", "\n"}

DigitVal(c) ==
    CASE c = "0" -> 0 [] c = "1" -> 1 [] c = "2" -> 2 [] c = "3" -> 3
      [] c = "4" -> 4 [] c = "5" -> 5 [] c = "6" -> 6 [] c = "7" -> 7
      [] c = "8" -> 8 [] c = "9" -> 9

Lower(c) ==
    CASE c = "I" -> "i" [] c = "N" -> "n" [] c = "F" -> "f" [] c = "A" -> "a"
      [] c = "T" -> "t" [] c = "Y" -> "y" [] c = "E" -> "e" [] OTHER -> c

RECURSIVE LStrip(_)
LStrip(cs) == IF cs # <<>> /\ Head(cs) \in Whitespace THEN LStrip(Tail(cs)) ELSE cs

RECURSIVE RStrip(_)
RStrip(cs) == IF cs # <<>> /\ cs[Len(cs)] \in Whitespace
              THEN RStrip(SubSeq(cs, 1, Len(cs) - 1)) ELSE cs

Strip(cs) == RStrip(LStrip(cs))

HasSign(cs) == cs # <<>> /\ Head(cs) \in {"+", "-"}
IsNegative(cs) == cs # <<>> /\ Head(cs) = "-"
Unsigned(cs) == IF HasSign(cs) THEN Tail(cs) ELSE cs

\* digits, with single underscores allowed between two digits
IsDigitPart(cs) ==
    /\ cs # <<>>
    /\ \A i \in 1..Len(cs) :
          \/ cs[i] \in Digits
          \/ /\ cs[i] = "_"
             /\ 1 < i /\ i < Len(cs)
             /\ cs[i - 1] \in Digits /\ cs[i + 1] \in Digits

RECURSIVE DigitsValue(_, _)
DigitsValue(cs, acc) ==
    IF cs = <<>> THEN acc
    ELSE IF Head(cs) = "_" THEN DigitsValue(Tail(cs), acc)
    ELSE DigitsValue(Tail(cs), 10 * acc + DigitVal(Head(cs)))

RECURSIVE DigitCount(_)
DigitCount(cs) ==
    IF cs = <<>> THEN 0
    ELSE (IF Head(cs) = "_" THEN 0 ELSE 1) + DigitCount(Tail(cs))

\* A faulty ParseInt, which C7 must tell from the program's: the sign is dropped
ParseIntMagnitude(cs) ==
    LET body == Unsigned(Strip(cs))
    IN IF IsDigitPart(body)
       THEN [ok |-> TRUE, v |-> JInt(DigitsValue(body, 0))]
       ELSE [ok |-> FALSE, v |-> JNull]

\* int(str): [ok, v]; ok = FALSE stands for ValueError
ParseInt(cs) ==
    LET body == Unsigned(Strip(cs))
    IN IF IsDigitPart(body)
       THEN [ok |-> TRUE,
             v |-> JInt(IF IsNegative(Strip(cs)) THEN 0 - DigitsValue(body, 0)
                        ELSE DigitsValue(body, 0))]
       ELSE [ok |-> FALSE, v |-> JNull]

\* the first position of a character of set S in cs, Len(cs) + 1 when none
RECURSIVE FindFirst(_, _, _)
FindFirst(cs, S, i) ==
    IF i > Len(cs) THEN i
    ELSE IF cs[i] \in S THEN i ELSE FindFirst(cs, S, i + 1)

RECURSIVE StripZeros(_, _)
StripZeros(m, e) ==
    IF m = 0 THEN <<0, 0>>
    ELSE IF m % 10 = 0 THEN StripZeros(m \div 10, e + 1) ELSE <<m, e>>

\* float(str): [ok, v]; ok = FALSE stands for ValueError
ParseFloat(cs) ==
    LET s == Strip(cs)
        neg == IsNegative(s)
        body == Unsigned(s)
        low == [i \in 1..Len(body) |-> Lower(body[i])]
        ePos == FindFirst(low, {"e"}, 1)
        mant == SubSeq(body, 1, ePos - 1)
        hasExp == ePos <= Len(body)
        expo == SubSeq(body, ePos + 1, Len(body))
        dot == FindFirst(mant, {"."}, 1)
        intPart == SubSeq(mant, 1, dot - 1)
        fracPart == SubSeq(mant, dot + 1, Len(mant))
        mantOk == /\ intPart = <<>> \/ IsDigitPart(intPart)
                  /\ fracPart = <<>> \/ IsDigitPart(fracPart)
                  /\ intPart # <<>> \/ fracPart # <<>>
        expOk == ~hasExp \/ IsDigitPart(Unsigned(expo))
        expVal == IF ~hasExp THEN 0
                  ELSE IF IsNegative(expo) THEN 0 - DigitsValue(Unsigned(expo), 0)
                  ELSE DigitsValue(Unsigned(expo), 0)
        norm == StripZeros(DigitsValue(intPart \o fracPart, 0),
                           expVal - DigitCount(fracPart))
    IN IF low \in {<<"i", "n", "f">>, <<"i", "n", "f", "i", "n", "i", "t", "y">>}
       THEN [ok |-> TRUE, v |-> JSpecial("inf", neg)]
       ELSE IF low = <<"n", "a", "n">>
       THEN [ok |-> TRUE, v |-> JSpecial("nan", FALSE)]
       ELSE IF mantOk /\ expOk
       THEN [ok |-> TRUE, v |-> JFinite(neg, norm[1], norm[2])]
       ELSE [ok |-> FALSE, v |-> JNull]

(***************************************************************************)
(* The outcome of a call: exc = "none" and the value returned, or the      *)
(* exception raised.                                                       *)
(***************************************************************************)
Return(v) == [exc |-> "none", val |-> v]
Raise(e) == [exc |-> e, val |-> JNull]

SchemaArg == "test_files/voxtral_config_schema.json"

\* A faulty LoadTestSchema, which C9 must tell from the program's: the handlers reuse the schema __main__ loaded
LoadStartupSchema == Return(schema_data)

\* load_test_schema(): the file at SCHEMA_PATH, parsed
LoadTestSchema ==
    IF SCHEMA_PATH = "None" THEN Raise("TypeError")
    ELSE IF SCHEMA_PATH # SchemaArg \/ file.t = "nofile" THEN Raise("FileNotFoundError")
    ELSE IF file.t = "badjson" THEN Raise("JSONDecodeError")
    ELSE Return(file)

\* A faulty PropertyItems, which C6 must tell from the program's: a non-mapping is taken for no properties at all
PropertyItemsLenient(sch) ==
    IF ~IsMapping(sch) THEN Return(<<>>)
    ELSE LET properties == IF "properties" \in Keys(sch)
                           THEN Lookup(sch, "properties") ELSE JObject(<<>>)
         IN IF ~IsMapping(properties) THEN Return(<<>>)
            ELSE Return(properties.items)

\* schema.get("properties", {}).items(): the <<name, prop_schema>> pairs
PropertyItems(sch) ==
    IF ~IsMapping(sch) THEN Raise("AttributeError")
    ELSE LET properties == IF "properties" \in Keys(sch)
                           THEN Lookup(sch, "properties") ELSE JObject(<<>>)
         IN IF ~IsMapping(properties) THEN Raise("AttributeError")
            ELSE Return(properties.items)

\* prop_schema.get("type")
PropType(prop_schema) ==
    IF "type" \in Keys(prop_schema) THEN Lookup(prop_schema, "type") ELSE JNull

\* A faulty CollectDefaults, which C5 must tell from the program's: a property without a default gets None
RECURSIVE CollectDefaultsOrNone(_, _)
CollectDefaultsOrNone(values, items) ==
    IF items = <<>> THEN values
    ELSE LET prop_name == Head(items)[1]
             prop_schema == Head(items)[2]
         IN CollectDefaultsOrNone(
                Put(values, prop_name,
                    IF "default" \in Keys(prop_schema)
                    THEN Lookup(prop_schema, "default") ELSE JNull),
                Tail(items))

\* the loop of get_default_values_from_schema over properties.items()
RECURSIVE CollectDefaults(_, _)
CollectDefaults(values, items) ==
    IF items = <<>> THEN values
    ELSE LET prop_name == Head(items)[1]
             prop_schema == Head(items)[2]
         IN CollectDefaults(IF "default" \in Keys(prop_schema)
                            THEN Put(values, prop_name, Lookup(prop_schema, "default"))
                            ELSE values,
                            Tail(items))

get_default_values_from_schema(sch) ==
    LET items == PropertyItems(sch)
    IN IF items.exc # "none" THEN items
       ELSE Return(CollectDefaults(EmptyDict, items.val))

\* A faulty DictOf, which C3 must tell from the program's: blank fields are left out
DictOfNonBlank(fd) == [k \in {x \in DOMAIN fd : fd[x] # JText(<<>>)} |-> fd[k]]

\* dict(form_data)
DictOf(fd) == [k \in DOMAIN fd |-> fd[k]]

\* A faulty CheckboxValue, which C1 must tell from the program's: the truth value of the posted string
CheckboxTruthy(cfg, prop_name) ==
    prop_name \in DOMAIN cfg /\ cfg[prop_name] # JText(<<>>)

\* prop_name in config, the value a checkbox field gets
CheckboxValue(cfg, prop_name) == prop_name \in DOMAIN cfg

\* A faulty BooleanPass, which C2 must tell from the program's: every property is handled as a checkbox
RECURSIVE BooleanPassEveryProperty(_, _)
BooleanPassEveryProperty(cfg, items) ==
    IF items = <<>> THEN cfg
    ELSE LET prop_name == Head(items)[1]
         IN BooleanPassEveryProperty(
                Put(cfg, prop_name, JBool(CheckboxValue(cfg, prop_name))),
                Tail(items))

\* submit's first loop over the properties: the boolean fields
RECURSIVE BooleanPass(_, _)
BooleanPass(cfg, items) ==
    IF items = <<>> THEN cfg
    ELSE LET prop_name == Head(items)[1]
             prop_schema == Head(items)[2]
         IN BooleanPass(IF PropType(prop_schema) = JStr("boolean")
                        THEN Put(cfg, prop_name, JBool(CheckboxValue(cfg, prop_name)))
                        ELSE cfg,
                        Tail(items))

\* A faulty CoerceInteger, which C4 must tell from the program's: a string int() rejects becomes None
CoerceIntegerOrNone(cfg, k) ==
    LET v == cfg[k]
    IN IF v.t = "str" /\ ParseInt(v.chars).ok THEN Put(cfg, k, ParseInt(v.chars).v)
       ELSE Put(cfg, k, JNull)

\* try: config[k] = int(config[k]) / except (ValueError, TypeError): pass
CoerceInteger(cfg, k) ==
    LET v == cfg[k]
    IN IF v.t = "bool" THEN Put(cfg, k, JInt(IF v.b THEN 1 ELSE 0))
       ELSE IF v.t = "str" /\ ParseInt(v.chars).ok THEN Put(cfg, k, ParseInt(v.chars).v)
       ELSE cfg

\* try: config[k] = float(config[k]) / except (ValueError, TypeError): pass
CoerceNumber(cfg, k) ==
    LET v == cfg[k]
    IN IF v.t = "bool" THEN Put(cfg, k, JFinite(FALSE, IF v.b THEN 1 ELSE 0, 0))
       ELSE IF v.t = "str" /\ ParseFloat(v.chars).ok THEN Put(cfg, k, ParseFloat(v.chars).v)
       ELSE cfg

\* A faulty CoerceField, which C8 must tell from the program's: whatever is not an integer is parsed as a number
CoerceFieldEager(cfg, prop_name, prop_schema) ==
    IF prop_name \in DOMAIN cfg
    THEN IF PropType(prop_schema) = JStr("integer") THEN CoerceInteger(cfg, prop_name)
         ELSE CoerceNumber(cfg, prop_name)
    ELSE cfg

\* the branch of submit's second loop for one property
CoerceField(cfg, prop_name, prop_schema) ==
    IF prop_name \in DOMAIN cfg
    THEN IF PropType(prop_schema) = JStr("integer") THEN CoerceInteger(cfg, prop_name)
         ELSE IF PropType(prop_schema) = JStr("number") THEN CoerceNumber(cfg, prop_name)
         ELSE cfg
    ELSE cfg

\* submit's second loop over the properties: the numeric fields
RECURSIVE NumericPass(_, _)
NumericPass(cfg, items) ==
    IF items = <<>> THEN cfg
    ELSE NumericPass(CoerceField(cfg, Head(items)[1], Head(items)[2]), Tail(items))

(***************************************************************************)
(* Inputs: the schema files and the posted forms the model runs on.        *)
(***************************************************************************)
Chars(w) ==
    CASE w = "" -> <<>>
      [] w = "42" -> <<"4", "2">>
      [] w = "-7" -> <<"-", "7">>
      [] w = "abc" -> <<"a", "b", "c">>
      [] w = "false" -> <<"f", "a", "l", "s", "e">>
      [] w = "3.5" -> <<"3", ".", "5">>
      [] w = " 8 " -> <<" ", "8", " ">>
      [] w = "1e2" -> <<"1", "e", "2">>

RawStrings == {JText(Chars(w)) : w \in {"", "42", "-7", "abc", "false", "3.5", " 8 ", "1e2"}}

PropNames == {"a", "b"}
FormKeys == PropNames \cup {"x"}

\* every form over the keys K with values from V
Forms(K, V) == UNION {[D -> V] : D \in SUBSET K}

TypeNames == {"boolean", "integer", "number", "string", "array"}

TypedProp(ty) == JObject(<<<<"type", JStr(ty)>>>>)

PropSchemas ==
    {TypedProp(ty) : ty \in TypeNames}
    \cup {JObject(<<>>),
          JObject(<<<<"type", JStr("integer")>>, <<"default", JInt(5)>>>>)}

DefaultValues == {JStr("hi"), JInt(5), JNull, JBool(FALSE)}

DefaultProps ==
    {JObject(<<>>), TypedProp("string"), TypedProp("integer")}
    \cup {JObject(<<<<"default", d>>>>) : d \in DefaultValues}
    \cup {JObject(<<<<"type", JStr(ty)>>, <<"default", d>>>>) :
             ty \in {"string", "integer"}, d \in DefaultValues}

\* the property lists over the names N with schemas from P, in either order
PropertyLists(N, P) ==
    {<<>>}
    \cup {<<<<n, p>>>> : n \in N, p \in P}
    \cup {<<<<nn[1], p1>>, <<nn[2], p2>>>> :
             nn \in {x \in N \X N : x[1] # x[2]}, p1 \in P, p2 \in P}

WellFormed(N, P) ==
    {JObject(<<<<"properties", JObject(items)>>>>) : items \in PropertyLists(N, P)}
    \cup {JObject(<<>>), JObject(<<<<"title", JStr("Demo")>>>>)}

NotMappings == {JList, JStr("schema"), JNull, JInt(7)}

BadProperties == {JObject(<<<<"properties", p>>>>) : p \in {JStr("oops"), JList, JNull}}

Unreadable == {[t |-> "nofile"], [t |-> "badjson"]}

SubmitFiles == WellFormed(PropNames, PropSchemas) \cup NotMappings \cup BadProperties
                  \cup Unreadable

DefaultFiles == WellFormed(PropNames, DefaultProps) \cup NotMappings \cup BadProperties
                   \cup Unreadable

\* the small inputs of the concurrent specifications
ServeSchemaA ==
    JObject(<<<<"properties",
               JObject(<<<<"a", TypedProp("boolean")>>,
                         <<"b", JObject(<<<<"type", JStr("integer")>>,
                                          <<"default", JInt(5)>>>>)>>>>)>>>>)

ServeSchemaB ==
    JObject(<<<<"properties",
               JObject(<<<<"a", JObject(<<<<"type", JStr("string")>>,
                                          <<"default", JStr("hi")>>>>)>>,
                         <<"b", TypedProp("boolean")>>>>)>>>>)

ServeFiles == {ServeSchemaA, ServeSchemaB, JObject(<<<<"properties", JStr("oops")>>>>)}

ServeForms ==
    {EmptyDict,
     [a |-> JText(Chars("")), b |-> JText(Chars("-7"))]}

MaxRequests == 2

(***************************************************************************)
(* The program: the __main__ block, then the two handlers, each request r  *)
(* stepping through its handler's statements.                              *)
(***************************************************************************)
Requests == DOMAIN pc

\* a name not bound yet: a local before its assignment, a global before __main__
Unbound == [t |-> "unbound"]

InitWith(n, files) ==
    /\ phase = "boot"
    /\ SCHEMA_PATH = "None"
    /\ schema_data = Unbound
    /\ file \in files
    /\ pc = [r \in 1..n |-> "idle"]
    /\ kind = [r \in 1..n |-> "none"]
    /\ form_data = [r \in 1..n |-> EmptyDict]
    /\ config = [r \in 1..n |-> EmptyDict]
    /\ schema = [r \in 1..n |-> Unbound]
    /\ response = [r \in 1..n |-> Raise("pending")]

\* __main__: set the global path, check and load the schema once, run the server
Main ==
    /\ phase = "boot"
    /\ SCHEMA_PATH' = SchemaArg
    /\ IF file.t \in {"nofile", "badjson"}
       THEN phase' = "exit" /\ UNCHANGED schema_data
       ELSE /\ schema_data' = file
            /\ phase' = IF IsMapping(file) THEN "serving" ELSE "exit"
    /\ UNCHANGED <<file, pc, kind, form_data, config, schema, response>>

\* the schema file is rewritten from outside the program
EditFile(files) ==
    /\ phase = "serving"
    /\ file' \in files \ {file}
    /\ UNCHANGED <<phase, SCHEMA_PATH, schema_data, pc, kind, form_data, config,
                   schema, response>>

\* the same, between two requests
EditFileIdle(files) ==
    /\ \A r \in Requests : pc[r] = "idle"
    /\ EditFile(files)

\* GET /
ArriveIndex(r) ==
    /\ phase = "serving"
    /\ pc[r] = "idle"
    /\ pc' = [pc EXCEPT ![r] = "load"]
    /\ kind' = [kind EXCEPT ![r] = "index"]
    /\ UNCHANGED <<phase, SCHEMA_PATH, schema_data, file, form_data, config, schema,
                   response>>

\* POST /submit with a form of the set forms
ArriveSubmit(r, forms) ==
    /\ phase = "serving"
    /\ pc[r] = "idle"
    /\ \E fd \in forms : form_data' = [form_data EXCEPT ![r] = fd]
    /\ pc' = [pc EXCEPT ![r] = "form"]
    /\ kind' = [kind EXCEPT ![r] = "submit"]
    /\ UNCHANGED <<phase, SCHEMA_PATH, schema_data, file, config, schema, response>>

\* schema = load_test_schema() in either handler
LoadSchema(r, next) ==
    /\ pc[r] = "load"
    /\ LET loaded == LoadTestSchema
       IN IF loaded.exc = "none"
          THEN /\ schema' = [schema EXCEPT ![r] = loaded.val]
               /\ pc' = [pc EXCEPT ![r] = next]
               /\ UNCHANGED response
          ELSE /\ response' = [response EXCEPT ![r] = Raise(loaded.exc)]
               /\ pc' = [pc EXCEPT ![r] = "done"]
               /\ UNCHANGED schema
    /\ UNCHANGED <<phase, SCHEMA_PATH, schema_data, file, kind, form_data, config>>

IndexLoad(r) == kind[r] = "index" /\ LoadSchema(r, "defaults")

\* example_values = get_default_values_from_schema(schema), and the page
IndexDefaults(r) ==
    /\ pc[r] = "defaults"
    /\ LET example_values == get_default_values_from_schema(schema[r])
       IN response' = [response EXCEPT ![r] =
              IF example_values.exc = "none"
              THEN Return([schema |-> schema[r], values |-> example_values.val])
              ELSE example_values]
    /\ pc' = [pc EXCEPT ![r] = "done"]
    /\ UNCHANGED <<phase, SCHEMA_PATH, schema_data, file, kind, form_data, config,
                   schema>>

\* A faulty SubmitForm, which C10 must tell from the program's: config is one dict shared by every request
SubmitFormShared(r) ==
    /\ pc[r] = "form"
    /\ config' = [q \in Requests |-> DictOf(form_data[r])]
    /\ pc' = [pc EXCEPT ![r] = "load"]
    /\ UNCHANGED <<phase, SCHEMA_PATH, schema_data, file, kind, form_data, schema,
                   response>>

\* form_data = await request.form(); config = dict(form_data)
SubmitForm(r) ==
    /\ pc[r] = "form"
    /\ config' = [config EXCEPT ![r] = DictOf(form_data[r])]
    /\ pc' = [pc EXCEPT ![r] = "load"]
    /\ UNCHANGED <<phase, SCHEMA_PATH, schema_data, file, kind, form_data, schema,
                   response>>

SubmitLoad(r) == kind[r] = "submit" /\ LoadSchema(r, "booleans")

\* the first loop: the boolean fields
SubmitBooleans(r) ==
    /\ pc[r] = "booleans"
    /\ LET items == PropertyItems(schema[r])
       IN IF items.exc = "none"
          THEN /\ config' = [config EXCEPT ![r] = BooleanPass(config[r], items.val)]
               /\ pc' = [pc EXCEPT ![r] = "numerics"]
               /\ UNCHANGED response
          ELSE /\ response' = [response EXCEPT ![r] = items]
               /\ pc' = [pc EXCEPT ![r] = "done"]
               /\ UNCHANGED config
    /\ UNCHANGED <<phase, SCHEMA_PATH, schema_data, file, kind, form_data, schema>>

\* the second loop: the numeric fields; then the page showing config (the
\* response is kept as config itself, before json.dumps renders it)
SubmitNumerics(r) ==
    /\ pc[r] = "numerics"
    /\ LET items == PropertyItems(schema[r])
       IN IF items.exc = "none"
          THEN LET coerced == NumericPass(config[r], items.val)
               IN /\ config' = [config EXCEPT ![r] = coerced]
                  /\ response' = [response EXCEPT ![r] = Return(coerced)]
          ELSE /\ response' = [response EXCEPT ![r] = items]
               /\ UNCHANGED config
    /\ pc' = [pc EXCEPT ![r] = "done"]
    /\ UNCHANGED <<phase, SCHEMA_PATH, schema_data, file, kind, form_data, schema>>

\* the response is sent and the request's locals are gone
Respond(r) ==
    /\ pc[r] = "done"
    /\ pc' = [pc EXCEPT ![r] = "idle"]
    /\ kind' = [kind EXCEPT ![r] = "none"]
    /\ form_data' = [form_data EXCEPT ![r] = EmptyDict]
    /\ config' = [config EXCEPT ![r] = EmptyDict]
    /\ schema' = [schema EXCEPT ![r] = Unbound]
    /\ response' = [response EXCEPT ![r] = Raise("pending")]
    /\ UNCHANGED <<phase, SCHEMA_PATH, schema_data, file>>

(***************************************************************************)
(* Spec: one request at a time, over every schema file and every form; the *)
(* program starts on one of BootFiles and the file changes between         *)
(* requests.                                                               *)
(***************************************************************************)
BootFiles == {ServeSchemaA, JList, [t |-> "nofile"]}

Init == InitWith(1, BootFiles)

Next ==
    \/ Main
    \/ EditFileIdle(SubmitFiles)
    \/ \E r \in Requests : ArriveIndex(r)
    \/ \E r \in Requests : IndexLoad(r)
    \/ \E r \in Requests : IndexDefaults(r)
    \/ \E r \in Requests : ArriveSubmit(r, Forms(FormKeys, RawStrings))
    \/ \E r \in Requests : SubmitForm(r)
    \/ \E r \in Requests : SubmitLoad(r)
    \/ \E r \in Requests : SubmitBooleans(r)
    \/ \E r \in Requests : SubmitNumerics(r)
    \/ \E r \in Requests : Respond(r)

Spec == Init /\ [][Next]_vars

(***************************************************************************)
(* SpecDefaults: index requests alone, over schema files with defaults.    *)
(***************************************************************************)
NextDefaults ==
    \/ Main
    \/ EditFileIdle(DefaultFiles)
    \/ \E r \in Requests : ArriveIndex(r)
    \/ \E r \in Requests : IndexLoad(r)
    \/ \E r \in Requests : IndexDefaults(r)
    \/ \E r \in Requests : Respond(r)

SpecDefaults == Init /\ [][NextDefaults]_vars

(***************************************************************************)
(* SpecServe: concurrent requests while the schema file changes at any     *)
(* time.  SpecStable: concurrent requests over a file that does not change.*)
(***************************************************************************)
InitServe == InitWith(MaxRequests, ServeFiles)

NextStable ==
    \/ Main
    \/ \E r \in Requests : ArriveIndex(r)
    \/ \E r \in Requests : IndexLoad(r)
    \/ \E r \in Requests : IndexDefaults(r)
    \/ \E r \in Requests : ArriveSubmit(r, ServeForms)
    \/ \E r \in Requests : SubmitForm(r)
    \/ \E r \in Requests : SubmitLoad(r)
    \/ \E r \in Requests : SubmitBooleans(r)
    \/ \E r \in Requests : SubmitNumerics(r)
    \/ \E r \in Requests : Respond(r)

NextServe == NextStable \/ EditFile(ServeFiles \cup {[t |-> "nofile"]})

SpecServe == InitServe /\ [][NextServe]_vars

SpecStable == InitServe /\ [][NextStable]_vars

(***************************************************************************)
(* The vocabulary of the claims: a schema document as the specification    *)
(* describes it, and a request that has run its handler to the end.        *)
(***************************************************************************)
PropertiesOf(S) ==
    IF "properties" \in Keys(S) THEN Lookup(S, "properties") ELSE JObject(<<>>)

\* a mapping whose properties, when given, are a mapping
WellFormedSchema(S) == IsMapping(S) /\ IsMapping(PropertiesOf(S))

\* not a mapping, or properties set to a non-mapping
StructurallyInvalid(S) ==
    /\ S.t \in {"null", "bool", "int", "float", "str", "list", "object"}
    /\ ~WellFormedSchema(S)

NamesOf(S) == Keys(PropertiesOf(S))
PropertyOf(S, n) == Lookup(PropertiesOf(S), n)
DeclaredType(S, n) ==
    IF "type" \in Keys(PropertyOf(S, n)) THEN Lookup(PropertyOf(S, n), "type").s
    ELSE "unspecified"
BooleanProps(S) == {n \in NamesOf(S) : DeclaredType(S, n) = "boolean"}

\* request r ran submit to its end on a well-formed schema
Submitted(r) == pc[r] = "done" /\ kind[r] = "submit" /\ WellFormedSchema(schema[r])

\* request r ran index to its end on a well-formed schema
Indexed(r) == pc[r] = "done" /\ kind[r] = "index" /\ WellFormedSchema(schema[r])

Returned(r) == response[r].exc = "none"

\* coerceSubmission(S, R) run on its own
Coerced(S, R) ==
    NumericPass(BooleanPass(DictOf(R), PropertiesOf(S).items), PropertiesOf(S).items)

Without(R, n) == [k \in DOMAIN R \ {n} |-> R[k]]

\* an optional minus sign and one or more decimal digits, and the integer it denotes
IsDecimalLiteral(cs) ==
    LET d == IF cs # <<>> /\ cs[1] = "-" THEN Tail(cs) ELSE cs
    IN d # <<>> /\ \A i \in 1..Len(d) : d[i] \in Digits

RECURSIVE Magnitude(_)
Magnitude(d) ==
    IF d = <<>> THEN 0
    ELSE 10 * Magnitude(SubSeq(d, 1, Len(d) - 1)) + DigitVal(d[Len(d)])

Denoted(cs) == IF cs[1] = "-" THEN 0 - Magnitude(Tail(cs)) ELSE Magnitude(cs)

(***************************************************************************)
(* C1.  Every boolean-typed property b of the schema is a key of submit's  *)
(* config, and its value is the boolean TRUE exactly when b is a key of    *)
(* the raw form, whatever string is stored under it; FALSE when b is       *)
(* absent.                                                                 *)
(***************************************************************************)
C1_BooleanIffPresent ==
    \A r \in Requests : Submitted(r) =>
        /\ Returned(r)
        /\ \A b \in BooleanProps(schema[r]) :
              /\ b \in DOMAIN response[r].val
              /\ response[r].val[b] = JBool(b \in DOMAIN form_data[r])

C1_Witness ==
    \E r \in Requests : \E b, c \in PropNames :
        /\ Submitted(r) /\ Returned(r)
        /\ {b, c} \subseteq BooleanProps(schema[r])
        /\ b \in DOMAIN form_data[r] /\ form_data[r][b] = JText(<<>>)
        /\ response[r].val[b] = JBool(TRUE)
        /\ c \notin DOMAIN form_data[r]
        /\ response[r].val[c] = JBool(FALSE)

(***************************************************************************)
(* C2, as claimed.  The key set of submit's config equals the boolean      *)
(* properties of the schema together with the keys of the raw form that    *)
(* are property names, also when the form has keys that are not property   *)
(* names.                                                                  *)
(***************************************************************************)
C2_KeysOnlyProperties ==
    \A r \in Requests : Submitted(r) /\ Returned(r) =>
        DOMAIN response[r].val =
            BooleanProps(schema[r]) \cup (DOMAIN form_data[r] \cap NamesOf(schema[r]))

(***************************************************************************)
(* C2, amended.  The key set of submit's config contains the boolean       *)
(* properties of the schema and the keys of the raw form that are property *)
(* names; every other key of it is a key of the raw form that is not a     *)
(* property name (so the sets are equal when every key of the form is a    *)
(* property name); a non-boolean property absent from the form is not a    *)
(* key of the config.                                                      *)
(***************************************************************************)
C2_KeysAmended ==
    \A r \in Requests : Submitted(r) =>
        LET S == schema[r]
            R == form_data[r]
            expected == BooleanProps(S) \cup (DOMAIN R \cap NamesOf(S))
        IN /\ Returned(r)
           /\ expected \subseteq DOMAIN response[r].val
           /\ DOMAIN response[r].val \ expected = DOMAIN R \ NamesOf(S)
           /\ \A n \in NamesOf(S) \ BooleanProps(S) :
                 n \notin DOMAIN R => n \notin DOMAIN response[r].val

C2_Witness ==
    \E r \in Requests : \E b, n \in PropNames :
        /\ Submitted(r) /\ Returned(r)
        /\ b \in BooleanProps(schema[r])
        /\ n \in NamesOf(schema[r]) \ BooleanProps(schema[r])
        /\ DOMAIN form_data[r] = {"x"}
        /\ DOMAIN response[r].val = {b, "x"}

(***************************************************************************)
(* C3.  The keys of submit's config are exactly the keys of the raw form   *)
(* plus every boolean-typed property of the schema: no key of the form is  *)
(* dropped, property or not, parsed or not.                                *)
(***************************************************************************)
C3_KeysOfRawPlusBooleans ==
    \A r \in Requests : Submitted(r) =>
        /\ Returned(r)
        /\ DOMAIN response[r].val = DOMAIN form_data[r] \cup BooleanProps(schema[r])

C3_Witness ==
    \E r \in Requests : \E b, n \in PropNames :
        /\ Submitted(r) /\ Returned(r)
        /\ b \in BooleanProps(schema[r]) /\ b \notin DOMAIN form_data[r]
        /\ n \in NamesOf(schema[r])
        /\ DeclaredType(schema[r], n) = "integer"
        /\ DOMAIN form_data[r] = {n, "x"}
        /\ form_data[r][n] = JText(<<>>)
        /\ form_data[r]["x"] = JText(<<>>)
        /\ DOMAIN response[r].val = {b, n, "x"}

(***************************************************************************)
(* C4.  When an integer (number) property is present in the raw form with  *)
(* a string that int() (float()) rejects, submit still returns, the key    *)
(* stays and maps to the raw string unchanged, and every other key has the *)
(* value it has when the failing field is left out of the form.            *)
(***************************************************************************)
C4_ParseFailureKeepsRaw ==
    \A r \in Requests : Submitted(r) =>
        LET S == schema[r]
            R == form_data[r]
        IN \A n \in NamesOf(S) \cap DOMAIN R :
              (\/ DeclaredType(S, n) = "integer" /\ ~ParseInt(R[n].chars).ok
               \/ DeclaredType(S, n) = "number" /\ ~ParseFloat(R[n].chars).ok)
              => /\ Returned(r)
                 /\ n \in DOMAIN response[r].val
                 /\ response[r].val[n] = R[n]
                 /\ \A k \in DOMAIN response[r].val \ {n} :
                       response[r].val[k] = Coerced(S, Without(R, n))[k]

C4_Witness ==
    \E r \in Requests : \E n, k \in PropNames :
        /\ Submitted(r) /\ Returned(r)
        /\ NamesOf(schema[r]) = {n, k} /\ n # k
        /\ DeclaredType(schema[r], n) = "integer"
        /\ DeclaredType(schema[r], k) = "number"
        /\ form_data[r] = (n :> JText(<<"3", ".", "5">>) @@ k :> JText(<<"3", ".", "5">>))
        /\ response[r].val[n] = JText(<<"3", ".", "5">>)
        /\ response[r].val[k] = JFinite(FALSE, 35, 0 - 1)

(***************************************************************************)
(* C5.  get_default_values_from_schema returns exactly the mapping from    *)
(* the properties that declare a default to that default, copied as it is; *)
(* a property without a default is not a key; a schema without properties  *)
(* gives the empty mapping; no error is raised.                            *)
(***************************************************************************)
C5_DefaultsVerbatim ==
    \A r \in Requests : Indexed(r) =>
        LET S == schema[r]
            declaring == {n \in NamesOf(S) : "default" \in Keys(PropertyOf(S, n))}
        IN /\ Returned(r)
           /\ DOMAIN response[r].val.values = declaring
           /\ \A n \in declaring :
                 response[r].val.values[n] = Lookup(PropertyOf(S, n), "default")
           /\ "properties" \notin Keys(S) => response[r].val.values = EmptyDict

C5_Witness ==
    \E r \in Requests :
        /\ Indexed(r) /\ Returned(r)
        /\ NamesOf(schema[r]) = {"a", "b"}
        /\ PropertyOf(schema[r], "a") =
              JObject(<<<<"type", JStr("string")>>, <<"default", JStr("hi")>>>>)
        /\ PropertyOf(schema[r], "b") = TypedProp("integer")
        /\ response[r].val.values = [a |-> JStr("hi")]

C5_WitnessNoProperties ==
    \E r \in Requests :
        /\ Indexed(r) /\ Returned(r)
        /\ "properties" \notin Keys(schema[r])
        /\ response[r].val.values = EmptyDict

C6_WitnessIndex ==
    \E r \in Requests :
        /\ pc[r] = "done" /\ kind[r] = "index"
        /\ schema[r] = JList
        /\ response[r].exc = "AttributeError"

(***************************************************************************)
(* C7.  An integer-typed property present in the raw form with a decimal   *)
(* integer literal maps, in submit's config, to the integer the literal    *)
(* denotes: "42" gives the integer 42.                                     *)
(***************************************************************************)
C7_IntegerParsed ==
    \A r \in Requests : Submitted(r) =>
        LET S == schema[r]
            R == form_data[r]
        IN \A n \in NamesOf(S) \cap DOMAIN R :
              DeclaredType(S, n) = "integer" /\ IsDecimalLiteral(R[n].chars)
              => /\ Returned(r)
                 /\ response[r].val[n] = JInt(Denoted(R[n].chars))

C7_Witness ==
    \E r \in Requests : \E n, k \in PropNames :
        /\ Submitted(r) /\ Returned(r)
        /\ NamesOf(schema[r]) = {n, k} /\ n # k
        /\ DeclaredType(schema[r], n) = "integer"
        /\ DeclaredType(schema[r], k) = "integer"
        /\ form_data[r] = (n :> JText(<<"4", "2">>) @@ k :> JText(<<"-", "7">>))
        /\ response[r].val = (n :> JInt(42) @@ k :> JInt(0 - 7))

(***************************************************************************)
(* C8.  A property present in the raw form whose declared type is string,  *)
(* or anything but boolean, integer and number, or that declares no type,  *)
(* maps in submit's config to the raw string unchanged, also when the      *)
(* string looks numeric.                                                   *)
(***************************************************************************)
C8_OtherTypesPassThrough ==
    \A r \in Requests : Submitted(r) =>
        LET S == schema[r]
            R == form_data[r]
        IN \A n \in NamesOf(S) \cap DOMAIN R :
              DeclaredType(S, n) \notin {"boolean", "integer", "number"}
              => /\ Returned(r)
                 /\ response[r].val[n] = R[n]

C8_Witness ==
    \E r \in Requests : \E n, k \in PropNames :
        /\ Submitted(r) /\ Returned(r)
        /\ NamesOf(schema[r]) = {n, k} /\ n # k
        /\ DeclaredType(schema[r], n) = "string"
        /\ DeclaredType(schema[r], k) \in {"unspecified", "array"}
        /\ form_data[r] = (n :> JText(<<"4", "2">>) @@ k :> JText(<<"4", "2">>))
        /\ response[r].val = form_data[r]

(***************************************************************************)
(* What a handler returns when it runs on its own, from the schema it      *)
(* loaded and the form it was posted.                                      *)
(***************************************************************************)
ExpectedResponse(k, S, R) ==
    IF ~WellFormedSchema(S) THEN Raise("AttributeError")
    ELSE IF k = "index"
    THEN Return([schema |-> S,
                 values |-> CollectDefaults(EmptyDict, PropertiesOf(S).items)])
    ELSE Return(Coerced(S, R))

HoldsSchema(r) == pc[r] \in {"defaults", "booleans", "numerics"}

(***************************************************************************)
(* C9.  Each request reads the schema file during that request: the step   *)
(* that loads the schema takes the content the file has at that moment (or *)
(* fails when the file cannot be read at that moment), the response is     *)
(* computed from the schema that step loaded, the handlers leave the       *)
(* loaded schema as it is, and no handler step writes the file or the      *)
(* schema __main__ loaded.                                                 *)
(***************************************************************************)
C9_SchemaLoadedFresh ==
    [][\A r \in Requests :
          /\ pc[r] = "load" /\ pc'[r] # "load" =>
                IF file.t = "nofile"
                THEN pc'[r] = "done" /\ response'[r] = Raise("FileNotFoundError")
                ELSE IF file.t = "badjson"
                THEN pc'[r] = "done" /\ response'[r] = Raise("JSONDecodeError")
                ELSE schema'[r] = file /\ HoldsSchema(r)'
          /\ HoldsSchema(r) /\ pc'[r] # "idle" => schema'[r] = schema[r]
          /\ HoldsSchema(r) /\ pc'[r] = "done" =>
                response'[r] = ExpectedResponse(kind[r], schema[r], form_data[r])
          /\ pc'[r] # pc[r] => file' = file /\ schema_data' = schema_data]_vars

C9_Witness ==
    \E r, q \in Requests :
        /\ pc[r] = "done" /\ Returned(r)
        /\ schema[r] = file /\ file # schema_data
        /\ pc[q] = "done" /\ Returned(q)
        /\ schema[q] # schema[r]

(***************************************************************************)
(* C10.  The handlers share no mutable state: while the server runs no     *)
(* step writes SCHEMA_PATH or the schema __main__ loaded, a step of one    *)
(* request leaves the form, config, schema and response of every other     *)
(* request as they were, a handler leaves the posted form as it was, and   *)
(* with the schema file unchanged every finished request holds the         *)
(* response it gives when run alone, under every interleaving.             *)
(***************************************************************************)
AloneResponse(k, R) ==
    IF file.t = "nofile" THEN Raise("FileNotFoundError")
    ELSE IF file.t = "badjson" THEN Raise("JSONDecodeError")
    ELSE ExpectedResponse(k, file, R)

C10_NoSharedState ==
    /\ [](\A r \in Requests :
             pc[r] = "done" => response[r] = AloneResponse(kind[r], form_data[r]))
    /\ [][/\ phase = "serving" =>
                SCHEMA_PATH' = SCHEMA_PATH /\ schema_data' = schema_data
          /\ \A r \in Requests :
                /\ pc'[r] = pc[r] =>
                      /\ form_data'[r] = form_data[r]
                      /\ config'[r] = config[r]
                      /\ schema'[r] = schema[r]
                      /\ response'[r] = response[r]
                /\ pc[r] \notin {"idle", "done"} => form_data'[r] = form_data[r]]_vars

C10_Witness ==
    \E r, q \in Requests :
        /\ pc[r] = "done" /\ kind[r] = "submit" /\ Returned(r)
        /\ pc[q] = "done" /\ kind[q] = "submit" /\ Returned(q)
        /\ form_data[r] # form_data[q]
        /\ response[r].val # response[q].val
        /\ \E b \in BooleanProps(schema[r]) :
              response[r].val[b] = JBool(TRUE) /\ response[q].val[b] = JBool(FALSE)

====
